---- MODULE Spec2Model ----
(***************************************************************************)
(* The OpenMeteo query builder of src/src/query.rs and its response        *)
(* decoding, as a state machine.                                           *)
(*                                                                         *)
(* A chain is one `OpenMeteo::new()...` expression: a builder value that   *)
(* is moved through configuration calls (each takes `self` by value and    *)
(* returns Result<OpenMeteo, Box<dyn Error>>), through the asynchronous    *)
(* `location` call and into `query`, which only borrows it (`&self`).      *)
(*                                                                         *)
(* api_url is kept as the sequence of lexical tokens of the string: the    *)
(* base literal, then "&" separators and key=value pairs, in the order     *)
(* push_str appended them.                                                 *)
(***************************************************************************)
EXTENDS Integers, Sequences, FiniteSets, TLC

VARIABLES
    chains,   \* the chains of this run (fixed by the initial state)
    builder,  \* builder[c]: the OpenMeteo value of chain c (after an Err: as it was dropped)
    pc,       \* pc[c]: where chain c stands
    pending,  \* pending[c]: the URL of the request chain c is suspended on
    steps,    \* steps[c]: configuration calls chain c has completed
    done,     \* done[c]: the single-set options a call of chain c has set successfully
    last      \* last[c]: the last call chain c completed, with its input and result

vars == <<chains, builder, pc, pending, steps, done, last>>

(***************************************************************************)
(* Bounds of the model.                                                    *)
(***************************************************************************)
\* configuration calls per chain, when the chain runs alone
MaxCalls == 3
\* candidates in one geocoding response
MaxCandidates == 2

\* the calls each of two concurrent chains makes
PairCalls == 1

ChainIds == {1, 2}

(***************************************************************************)
(* Tokens of api_url.                                                      *)
(***************************************************************************)
BaseUrl == "https://api.open-meteo.com/v1/forecast?"

Base == [t |-> "base", k |-> BaseUrl, v |-> ""]

Amp == [t |-> "&", k |-> "", v |-> ""]

KV(key, value) == [t |-> "kv", k |-> key, v |-> value]

HourlyCatalog == "temperature_2m,relativehumidity_2m,dewpoint_2m,apparent_temperature,precipitation_probability,precipitation,rain,showers,snowfall,snow_depth,weathercode,pressure_msl,surface_pressure,cloudcover,cloudcover_low,cloudcover_mid,cloudcover_high,visibility,evapotranspiration,et0_fao_evapotranspiration,vapor_pressure_deficit,windspeed_10m,windspeed_80m,windspeed_120m,windspeed_180m,winddirection_10m,winddirection_80m,winddirection_120m,winddirection_180m,windgusts_10m,temperature_80m,temperature_120m,temperature_180m,soil_temperature_0cm,soil_temperature_6cm,soil_temperature_18cm,soil_temperature_54cm,soil_moisture_0_1cm,soil_moisture_1_3cm,soil_moisture_3_9cm,soil_moisture_9_27cm,soil_moisture_27_81cm"

DailyCatalog == "weathercode,temperature_2m_max,temperature_2m_min,apparent_temperature_max,apparent_temperature_min,sunrise,sunset,uv_index_max,uv_index_clear_sky_max,precipitation_sum,rain_sum,showers_sum,snowfall_sum,precipitation_hours,precipitation_probability_max,windspeed_10m_max,windgusts_10m_max,winddirection_10m_dominant,shortwave_radiation_sum,et0_fao_evapotranspiration"

(***************************************************************************)
(* Results.  Every error of the source is a Box<dyn Error>; `type` is the  *)
(* concrete type in the box and `msg` its text.  A panic (expect/unwrap)   *)
(* is no Result at all: it unwinds the calling task.                       *)
(***************************************************************************)
Ok(type) == [tag |-> "Ok", type |-> type, msg |-> ""]

Err(type, msg) == [tag |-> "Err", type |-> type, msg |-> msg]

StrErr(msg) == Err("String", msg)

Panic(msg) == [tag |-> "Panic", type |-> "", msg |-> msg]

MsgLocationAlreadySet == "Location is already set"

MsgStartAlreadySet == "Start date is already set"

MsgEndAlreadySet == "End date is already set"

MsgTimeZoneAlreadySet == "Time zone is already set"

MsgLocationNotSet == "Location is not set. Please set your location using .location() or .coordinates() method first."

MsgTimeZoneNotSet == "Specify .timezone() before .daily() method using TimeZone enum"

MsgLookupFailed == "Error getting city coordinates from geolocation"

MsgNoMatch == "Error getting city coordinates. Geolocation did not return any coordinates"

MsgExpectJson == "Couldn't parse coordinates using geocode, try using .coordinates() instead"

MsgUnwrapNone == "called Option::unwrap() on a None value"

MsgUnwrapErr == "called Result::unwrap() on an Err value: ParseFloatError"

(***************************************************************************)
(* format!("{}", ..) and str::parse.                                       *)
(*                                                                         *)
(* An f32 is held as the integer count of 1e-5 units of its shortest       *)
(* round-trip decimal (what Display prints); the values used are below 128 *)
(* in magnitude, where f32 still separates 1e-5 steps.                     *)
(***************************************************************************)
Digit(d) ==
    CASE d = 0 -> "0" [] d = 1 -> "1" [] d = 2 -> "2" [] d = 3 -> "3" [] d = 4 -> "4"
      [] d = 5 -> "5" [] d = 6 -> "6" [] d = 7 -> "7" [] d = 8 -> "8" [] d = 9 -> "9"

RECURSIVE FormatNat(_)
FormatNat(n) == IF n < 10 THEN Digit(n) ELSE FormatNat(n \div 10) \o Digit(n % 10)

\* format!("{}", n) of a u64
FormatU64(n) == FormatNat(n)

RECURSIVE FracDigits(_, _)
FracDigits(f, w) ==
    IF f = 0 THEN ""
    ELSE Digit(f \div (10 ^ (w - 1))) \o FracDigits(f % (10 ^ (w - 1)), w - 1)

\* format!("{}", x) of an f32: no exponent, no trailing zeros, no ".0"
FormatF32(x) ==
    LET a == IF x < 0 THEN 0 - x ELSE x
        i == a \div 100000
        f == a % 100000
    IN  (IF x < 0 THEN "-" ELSE "") \o FormatNat(i)
          \o (IF f = 0 THEN "" ELSE "." \o FracDigits(f, 5))

\* s.parse::<f32>() on the decimal strings the geocoder is modelled to send:
\* the nearest f32 (51.5073219 is not an f32; the nearest one prints 51.50732)
ParseF32(s) ==
    CASE s = "51.5073219" -> [ok |-> TRUE, v |-> 5150732]
      [] s = "-0.1276"    -> [ok |-> TRUE, v |-> 0 - 12760]
      [] s = "52.52"      -> [ok |-> TRUE, v |-> 5252000]
      [] s = "13.405"     -> [ok |-> TRUE, v |-> 1340500]
      [] OTHER            -> [ok |-> FALSE, v |-> 0]

(***************************************************************************)
(* models::TimeZone and the literal time_zone() pushes for each value.     *)
(***************************************************************************)
TimeZone ==
    { "AmericaAnchorage", "AmericaLosAngeles", "AmericaDenver", "AmericaChicago",
      "AmericaNewYork", "AmericaSaoPaulo", "GMT0", "Auto", "EuropeLondon",
      "EuropeBerlin", "EuropeMoscow", "AfricaCairo", "AsiaBangkok", "AsiaSingapore",
      "AsiaTokyo", "AustraliaSydney", "PacificAuckland" }

TimeZoneLiteral(time_zone) ==
    CASE time_zone = "AmericaAnchorage"  -> "America%2FAnchorage"
      [] time_zone = "AmericaLosAngeles" -> "America%2FLos_Angeles"
      [] time_zone = "AmericaDenver"     -> "America%2FDenver"
      [] time_zone = "AmericaChicago"    -> "America%2FChicago"
      [] time_zone = "AmericaNewYork"    -> "America%2FNew_York"
      [] time_zone = "AmericaSaoPaulo"   -> "America%2FASao_Paulo"
      [] time_zone = "GMT0"              -> "GMT"
      [] time_zone = "Auto"              -> "auto"
      [] time_zone = "EuropeLondon"      -> "Europe%2FLondon"
      [] time_zone = "EuropeBerlin"      -> "Europe%2FBerlin"
      [] time_zone = "EuropeMoscow"      -> "Europe%2FMoscow"
      [] time_zone = "AfricaCairo"       -> "Africa%2FCairo"
      [] time_zone = "AsiaBangkok"       -> "Asia%2FBangkok"
      [] time_zone = "AsiaSingapore"     -> "Asia%2FSingapore"
      [] time_zone = "AsiaTokyo"         -> "Asia%2FTokio"
      [] time_zone = "AustraliaSydney"   -> "Australia%2FSydney"
      [] time_zone = "PacificAuckland"   -> "Pacific%2FAuckland"

(***************************************************************************)
(* The builder.  Each configuration method is an operator from the value   *)
(* it consumes (and its arguments) to [res, self]: the Result it returns   *)
(* and the builder as the method left it, which is the builder inside      *)
(* Ok(..), or the value dropped on the error path.                         *)
(***************************************************************************)
new ==
    [ api_url         |-> <<Base>>,
      set_coordinates |-> FALSE,
      set_time_zone   |-> FALSE,
      set_start_date  |-> FALSE,
      set_end_date    |-> FALSE ]

\* Ok(Self { api_url: self.api_url, set_coordinates: self.set_coordinates, .. })
Returned(self) ==
    [ res  |-> Ok("OpenMeteo"),
      self |-> [ api_url         |-> self.api_url,
                 set_coordinates |-> self.set_coordinates,
                 set_time_zone   |-> self.set_time_zone,
                 set_start_date  |-> self.set_start_date,
                 set_end_date    |-> self.set_end_date ] ]

Failed(self, error) == [res |-> error, self |-> self]

\* mutant of push_str: inserts right after the base instead of appending
push_front(self, tokens) ==
    [self EXCEPT !.api_url = <<Head(self.api_url)>> \o tokens \o Tail(self.api_url)]

push_str(self, tokens) == [self EXCEPT !.api_url = self.api_url \o tokens]

coordinates(self, lat, lon) ==
    IF self.set_coordinates
    THEN Failed(self, StrErr(MsgLocationAlreadySet))
    ELSE Returned([push_str(self, << KV("latitude", FormatF32(lat)), Amp,
                                     KV("longitude", FormatF32(lon)) >>)
                      EXCEPT !.set_coordinates = TRUE])

\* mutant of _check_location: the check passes on every builder
check_location_never_fails(self) == Ok("()")

_check_location(self) ==
    IF ~self.set_coordinates THEN StrErr(MsgLocationNotSet) ELSE Ok("()")

\* mutant of start_date: the location check is missing
start_date_unchecked(self, date) ==
    IF self.set_start_date
    THEN Failed(self, StrErr(MsgStartAlreadySet))
    ELSE Returned([push_str(self, <<Amp, KV("start_date", date)>>)
                      EXCEPT !.set_start_date = TRUE])

\* mutant of start_date: pushes the parameter before it checks the location
start_date_push_first(self, date) ==
    IF self.set_start_date
    THEN Failed(self, StrErr(MsgStartAlreadySet))
    ELSE IF _check_location(self).tag = "Err"
    THEN Failed(push_str(self, <<Amp, KV("start_date", date)>>), _check_location(self))
    ELSE Returned([push_str(self, <<Amp, KV("start_date", date)>>)
                      EXCEPT !.set_start_date = TRUE])

start_date(self, date) ==
    IF self.set_start_date
    THEN Failed(self, StrErr(MsgStartAlreadySet))
    ELSE IF _check_location(self).tag = "Err"
    THEN Failed(self, _check_location(self))
    ELSE Returned([push_str(self, <<Amp, KV("start_date", date)>>)
                      EXCEPT !.set_start_date = TRUE])

\* mutant of end_date: refuses an end date while no start date is set
end_date_requires_start(self, date) ==
    IF self.set_end_date
    THEN Failed(self, StrErr(MsgEndAlreadySet))
    ELSE IF _check_location(self).tag = "Err" \/ ~self.set_start_date
    THEN Failed(self, StrErr(MsgLocationNotSet))
    ELSE Returned([push_str(self, <<Amp, KV("end_date", date)>>)
                      EXCEPT !.set_end_date = TRUE])

end_date(self, date) ==
    IF self.set_end_date
    THEN Failed(self, StrErr(MsgEndAlreadySet))
    ELSE IF _check_location(self).tag = "Err"
    THEN Failed(self, _check_location(self))
    ELSE Returned([push_str(self, <<Amp, KV("end_date", date)>>)
                      EXCEPT !.set_end_date = TRUE])

\* mutant of current_weather: returns a builder with the time-zone flag at its default
current_weather_resets_flag(self) ==
    IF _check_location(self).tag = "Err"
    THEN Failed(self, _check_location(self))
    ELSE Returned([push_str(self, <<Amp, KV("current_weather", "true")>>)
                      EXCEPT !.set_time_zone = FALSE])

current_weather(self) ==
    IF _check_location(self).tag = "Err"
    THEN Failed(self, _check_location(self))
    ELSE Returned(push_str(self, <<Amp, KV("current_weather", "true")>>))

\* mutant of forecast_days: a local cap at the service's 16-day horizon
forecast_days_capped(self, n) ==
    IF _check_location(self).tag = "Err"
    THEN Failed(self, _check_location(self))
    ELSE IF n > 16
    THEN Failed(self, StrErr("Forecast days is out of range"))
    ELSE Returned(push_str(self, <<Amp, KV("forecast_days", FormatU64(n))>>))

past_days(self, n) ==
    IF _check_location(self).tag = "Err"
    THEN Failed(self, _check_location(self))
    ELSE Returned(push_str(self, <<Amp, KV("past_days", FormatU64(n))>>))

forecast_days(self, n) ==
    IF _check_location(self).tag = "Err"
    THEN Failed(self, _check_location(self))
    ELSE Returned(push_str(self, <<Amp, KV("forecast_days", FormatU64(n))>>))

\* mutant of hourly: checks the location like its sibling methods
hourly_checks_location(self) ==
    IF _check_location(self).tag = "Err"
    THEN Failed(self, _check_location(self))
    ELSE Returned(push_str(self, <<Amp, KV("hourly", HourlyCatalog)>>))

hourly(self) == Returned(push_str(self, <<Amp, KV("hourly", HourlyCatalog)>>))

\* mutant of daily: guards on the location flag instead of the time-zone flag
daily_checks_location(self) ==
    IF ~self.set_coordinates
    THEN Failed(self, StrErr(MsgTimeZoneNotSet))
    ELSE Returned(push_str(self, <<Amp, KV("daily", DailyCatalog)>>))

daily(self) ==
    IF ~self.set_time_zone
    THEN Failed(self, StrErr(MsgTimeZoneNotSet))
    ELSE Returned(push_str(self, <<Amp, KV("daily", DailyCatalog)>>))

\* mutant of time_zone: the flag assignment is missing
time_zone_flag_not_set(self, zone) ==
    IF self.set_time_zone
    THEN Failed(self, StrErr(MsgTimeZoneAlreadySet))
    ELSE Returned(push_str(self, <<Amp, KV("timezone", TimeZoneLiteral(zone))>>))

time_zone(self, zone) ==
    IF self.set_time_zone
    THEN Failed(self, StrErr(MsgTimeZoneAlreadySet))
    ELSE Returned([push_str(self, <<Amp, KV("timezone", TimeZoneLiteral(zone))>>)
                      EXCEPT !.set_time_zone = TRUE])

(***************************************************************************)
(* The geocoder's answer to location()'s GET, as the code reads it:        *)
(* whether the request and the body transfer succeeded, the status, and    *)
(* the body as serde_json::Value sees it.                                  *)
(***************************************************************************)
StatusOK == 200

\* statuses other than 200 the geocoder is modelled to answer with
OtherStatuses == { 404 }

JString(s) == [t |-> "string", s |-> s]

JNumber == [t |-> "number", s |-> ""]

JNull == [t |-> "null", s |-> ""]

\* the elements a geocoding array is built from; a missing key indexes to Null
Candidates ==
    { [lat |-> JString("51.5073219"), lon |-> JString("-0.1276")],
      [lat |-> JString("52.52"),      lon |-> JString("13.405")],
      [lat |-> JNull,                 lon |-> JString("13.405")],
      [lat |-> JString("52.52"),      lon |-> JNumber],
      [lat |-> JString("abc"),        lon |-> JString("13.405")],
      [lat |-> JString("52.52"),      lon |-> JString("abc")] }

\* the elements after the first, which the code never reads, are well-formed ones
WellFormed ==
    { cand \in Candidates :
         /\ cand.lat.t = "string" /\ ParseF32(cand.lat.s).ok
         /\ cand.lon.t = "string" /\ ParseF32(cand.lon.s).ok }

NoBody == [t |-> "none", items |-> <<>>]

GeoBodies ==
    { [t |-> "invalid", items |-> <<>>], [t |-> "object", items |-> <<>>] }
      \cup { [t |-> "array", items |-> items] :
                 items \in { <<>> } \cup
                     { <<first>> \o rest : first \in Candidates,
                          rest \in UNION { [1..n -> WellFormed] : n \in 0..(MaxCandidates - 1) } } }

GeoResponses ==
    { [net |-> "send_err", status |-> 0, body |-> NoBody] }
      \cup { [net |-> "body_err", status |-> StatusOK, body |-> NoBody] }
      \cup { [net |-> "ok", status |-> st, body |-> b] :
                 st \in {StatusOK} \cup OtherStatuses, b \in GeoBodies }

GeocodeUrl(place_name) == "https://geocode.maps.co/search?q=" \o place_name

\* json[0][key].as_str(): Some only for a JSON string
as_str(value) == IF value.t = "string" THEN [some |-> TRUE, s |-> value.s]
                 ELSE [some |-> FALSE, s |-> ""]

\* mutant of first_candidate: takes the last element of the array
last_candidate(json) == json.items[Len(json.items)]

\* json[0]
first_candidate(json) == json.items[1]

\* location() from its first await on: `response` is what reqwest::get resolved to
location(self, response) ==
    IF response.net = "send_err"
    THEN Failed(self, Err("reqwest::Error", "error sending request"))
    ELSE IF response.status # StatusOK
    THEN Failed(self, StrErr(MsgLookupFailed))
    ELSE IF response.net = "body_err"
    THEN Failed(self, Err("reqwest::Error", "error decoding response body"))
    ELSE IF response.body.t = "invalid"
    THEN Failed(self, Panic(MsgExpectJson))
    ELSE LET json    == response.body
             vec_len == IF json.t = "array" THEN Len(json.items) ELSE 0
         IN  IF vec_len < 1
             THEN Failed(self, StrErr(MsgNoMatch))
             ELSE LET lat_str == as_str(first_candidate(json).lat)
                      lon_str == as_str(first_candidate(json).lon)
                  IN  IF ~lat_str.some
                      THEN Failed(self, Panic(MsgUnwrapNone))
                      ELSE IF ~ParseF32(lat_str.s).ok
                      THEN Failed(self, Panic(MsgUnwrapErr))
                      ELSE IF ~lon_str.some
                      THEN Failed(self, Panic(MsgUnwrapNone))
                      ELSE IF ~ParseF32(lon_str.s).ok
                      THEN Failed(self, Panic(MsgUnwrapErr))
                      ELSE coordinates(self, ParseF32(lat_str.s).v,
                                             ParseF32(lon_str.s).v)

(***************************************************************************)
(* The weather service's answer to query()'s GET.  The two schemas live in *)
(* crate::models; a body is held as the outcome of each of the two         *)
(* serde_json::from_str calls on it, and the `reason` the second yields.   *)
(***************************************************************************)
Reasons == { "Forecast days is invalid. Allowed range 0 to 16.", MsgLocationAlreadySet }

WeatherBodies ==
    { [as_data |-> d, as_error |-> FALSE, reason |-> ""] : d \in BOOLEAN }
      \cup { [as_data |-> d, as_error |-> TRUE, reason |-> r] :
                 d \in BOOLEAN, r \in Reasons }

NoWeatherBody == [as_data |-> FALSE, as_error |-> FALSE, reason |-> ""]

WeatherResponses ==
    { [net |-> n, body |-> NoWeatherBody] : n \in {"send_err", "body_err"} }
      \cup { [net |-> "ok", body |-> b] : b \in WeatherBodies }

\* mutant of query: tries the error schema before the success schema
query_error_schema_first(self, response) ==
    IF response.net # "ok"
    THEN Failed(self, Err("reqwest::Error", "error sending request"))
    ELSE IF response.body.as_error
    THEN Failed(self, StrErr(response.body.reason))
    ELSE IF ~response.body.as_data
    THEN Failed(self, Err("serde_json::Error", "missing field"))
    ELSE [res |-> Ok("OpenMeteoData"), self |-> self]

\* mutant of query: a body neither schema accepts is reported like a rejection
query_malformed_as_rejection(self, response) ==
    IF response.net # "ok"
    THEN Failed(self, Err("reqwest::Error", "error sending request"))
    ELSE IF ~response.body.as_data
    THEN IF ~response.body.as_error
         THEN Failed(self, StrErr("unknown error"))
         ELSE Failed(self, StrErr(response.body.reason))
    ELSE [res |-> Ok("OpenMeteoData"), self |-> self]

\* query() from its await on: the builder is only borrowed, and is left as it was
query(self, response) ==
    IF response.net # "ok"
    THEN Failed(self, Err("reqwest::Error", "error sending request"))
    ELSE IF ~response.body.as_data
    THEN IF ~response.body.as_error
         THEN Failed(self, Err("serde_json::Error", "missing field"))
         ELSE Failed(self, StrErr(response.body.reason))
    ELSE [res |-> Ok("OpenMeteoData"), self |-> self]

(***************************************************************************)
(* Arguments the calls are made with.                                      *)
(***************************************************************************)
\* (lat, lon) of coordinates(): 51.0, 0.0 and 55.0, 37.0
CoordArgs == { <<5100000, 0>>, <<5500000, 3700000>> }

PlaceArgs == { "London", "Nowhere" }

DateArgs == { "2023-09-01", "2023-12-12" }

DayArgs == { 10, 17 }

ZoneArgs == { "EuropeLondon", "AsiaTokyo", "Auto" }

NoArg == [none |-> TRUE]

NoResponse == [net |-> "none"]

NoPending == [host |-> "none", url |-> ""]

\* the single-set option a method sets
OptionOf(op) ==
    CASE op \in {"coordinates", "location"} -> "location"
      [] op = "time_zone"  -> "time_zone"
      [] op = "start_date" -> "start_date"
      [] op = "end_date"   -> "end_date"
      [] OTHER             -> "none"

Options == { "location", "time_zone", "start_date", "end_date" }

\* two chains are running, their steps interleaved
Concurrent == chains = ChainIds

CallLimit == IF Concurrent THEN PairCalls ELSE MaxCalls

\* the arguments a call draws from: with two chains interleaved, one per kind
Draw(S) == IF Concurrent THEN { CHOOSE x \in S : TRUE } ELSE S

\* the answers a suspended call resumes with: with two chains interleaved, one
\* answer of each kind the code tells apart
GeoAnswers ==
    IF Concurrent
    THEN { r \in GeoResponses : r.status \notin OtherStatuses /\ Len(r.body.items) <= 1 }
    ELSE GeoResponses

WeatherAnswers ==
    IF Concurrent
    THEN { r \in WeatherResponses : r.body.reason # MsgLocationAlreadySet }
    ELSE WeatherResponses

(***************************************************************************)
(* The state machine.                                                      *)
(***************************************************************************)
Init ==
    /\ chains = {1}
    /\ builder = [c \in ChainIds |-> new]
    /\ pc = [c \in ChainIds |-> "ready"]
    /\ pending = [c \in ChainIds |-> NoPending]
    /\ steps = [c \in ChainIds |-> 0]
    /\ done = [c \in ChainIds |-> {}]
    /\ last = [c \in ChainIds |->
                 [ op |-> "new", arg |-> NoArg, pre |-> new, predone |-> {},
                   sent |-> FALSE, resp |-> NoResponse, res |-> Ok("OpenMeteo") ]]

\* two builders made by two calls of new(), their chains running concurrently
InitPair ==
    /\ chains = ChainIds
    /\ builder = [c \in ChainIds |-> new]
    /\ pc = [c \in ChainIds |-> "ready"]
    /\ pending = [c \in ChainIds |-> NoPending]
    /\ steps = [c \in ChainIds |-> 0]
    /\ done = [c \in ChainIds |-> {}]
    /\ last = [c \in ChainIds |->
                 [ op |-> "new", arg |-> NoArg, pre |-> new, predone |-> {},
                   sent |-> FALSE, resp |-> NoResponse, res |-> Ok("OpenMeteo") ]]

CanCall(c) == pc[c] = "ready" /\ steps[c] < CallLimit

\* mutant of Complete: the builder is one shared value, every chain sees the write
CompleteShared(c, op, arg, sent, resp, out) ==
    /\ builder' = [d \in ChainIds |-> out.self]
    /\ pc' = [pc EXCEPT ![c] = CASE out.res.tag = "Ok"    -> "ready"
                                 [] out.res.tag = "Err"   -> "failed"
                                 [] out.res.tag = "Panic" -> "panicked"]
    /\ pending' = [pending EXCEPT ![c] = NoPending]
    /\ steps' = [steps EXCEPT ![c] = @ + 1]
    /\ done' = [done EXCEPT ![c] =
                   IF out.res.tag = "Ok" /\ OptionOf(op) \in Options
                   THEN @ \cup {OptionOf(op)} ELSE @]
    /\ last' = [last EXCEPT ![c] =
                   [ op |-> op, arg |-> arg, pre |-> builder[c], predone |-> done[c],
                     sent |-> sent, resp |-> resp, res |-> out.res ]]
    /\ UNCHANGED chains

\* A configuration call of chain c returns `out`: the builder was moved into the
\* call, so the chain goes on only with the builder inside Ok(..).
Complete(c, op, arg, sent, resp, out) ==
    /\ builder' = [builder EXCEPT ![c] = out.self]
    /\ pc' = [pc EXCEPT ![c] = CASE out.res.tag = "Ok"    -> "ready"
                                 [] out.res.tag = "Err"   -> "failed"
                                 [] out.res.tag = "Panic" -> "panicked"]
    /\ pending' = [pending EXCEPT ![c] = NoPending]
    /\ steps' = [steps EXCEPT ![c] = @ + 1]
    /\ done' = [done EXCEPT ![c] =
                   IF out.res.tag = "Ok" /\ OptionOf(op) \in Options
                   THEN @ \cup {OptionOf(op)} ELSE @]
    /\ last' = [last EXCEPT ![c] =
                   [ op |-> op, arg |-> arg, pre |-> builder[c], predone |-> done[c],
                     sent |-> sent, resp |-> resp, res |-> out.res ]]
    /\ UNCHANGED chains

CallCoordinates(c) ==
    /\ CanCall(c)
    /\ \E a \in Draw(CoordArgs) :
          Complete(c, "coordinates", [lat |-> a[1], lon |-> a[2]], FALSE, NoResponse,
                   coordinates(builder[c], a[1], a[2]))

\* location(): format the URL and suspend on reqwest::get(url).await
LocationSend(c) ==
    /\ CanCall(c)
    /\ \E place_name \in Draw(PlaceArgs) :
          pending' = [pending EXCEPT ![c] =
                         [host |-> "geocode", url |-> GeocodeUrl(place_name)]]
    /\ pc' = [pc EXCEPT ![c] = "location_await"]
    /\ UNCHANGED <<chains, builder, steps, done, last>>

\* location() resumed with the geocoder's answer
LocationRecv(c) ==
    /\ pc[c] = "location_await"
    /\ \E response \in GeoAnswers :
          Complete(c, "location", [s |-> pending[c].url], TRUE, response,
                   location(builder[c], response))

CallStartDate(c) ==
    /\ CanCall(c)
    /\ \E date \in Draw(DateArgs) :
          Complete(c, "start_date", [s |-> date], FALSE, NoResponse,
                   start_date(builder[c], date))

CallEndDate(c) ==
    /\ CanCall(c)
    /\ \E date \in Draw(DateArgs) :
          Complete(c, "end_date", [s |-> date], FALSE, NoResponse,
                   end_date(builder[c], date))

CallCurrentWeather(c) ==
    /\ CanCall(c)
    /\ Complete(c, "current_weather", NoArg, FALSE, NoResponse,
                current_weather(builder[c]))

CallPastDays(c) ==
    /\ CanCall(c)
    /\ \E n \in Draw(DayArgs) :
          Complete(c, "past_days", [n |-> n], FALSE, NoResponse,
                   past_days(builder[c], n))

CallForecastDays(c) ==
    /\ CanCall(c)
    /\ \E n \in Draw(DayArgs) :
          Complete(c, "forecast_days", [n |-> n], FALSE, NoResponse,
                   forecast_days(builder[c], n))

CallHourly(c) ==
    /\ CanCall(c)
    /\ Complete(c, "hourly", NoArg, FALSE, NoResponse, hourly(builder[c]))

CallDaily(c) ==
    /\ CanCall(c)
    /\ Complete(c, "daily", NoArg, FALSE, NoResponse, daily(builder[c]))

CallTimeZone(c) ==
    /\ CanCall(c)
    /\ \E zone \in Draw(ZoneArgs) :
          Complete(c, "time_zone", [z |-> zone], FALSE, NoResponse,
                   time_zone(builder[c], zone))

\* query(&self): take the URL and suspend on reqwest::get(url).await
QuerySend(c) ==
    /\ pc[c] = "ready"
    /\ pending' = [pending EXCEPT ![c] = [host |-> "weather", url |-> builder[c].api_url]]
    /\ pc' = [pc EXCEPT ![c] = "query_await"]
    /\ UNCHANGED <<chains, builder, steps, done, last>>

\* mutant of QueryRecv: query(self) by value, the builder is gone when it returns
QueryRecvConsumes(c) ==
    /\ pc[c] = "query_await"
    /\ \E response \in WeatherAnswers :
          LET out == query(builder[c], response)
          IN  /\ builder' = [builder EXCEPT ![c] = out.self]
              /\ last' = [last EXCEPT ![c] =
                             [ op |-> "query", arg |-> [url |-> pending[c].url],
                               pre |-> builder[c], predone |-> done[c],
                               sent |-> TRUE, resp |-> response, res |-> out.res ]]
    /\ pc' = [pc EXCEPT ![c] = "consumed"]
    /\ pending' = [pending EXCEPT ![c] = NoPending]
    /\ UNCHANGED <<chains, steps, done>>

\* query() resumed with the service's answer; the borrow ends and the caller
\* still owns the builder, whatever the result
QueryRecv(c) ==
    /\ pc[c] = "query_await"
    /\ \E response \in WeatherAnswers :
          LET out == query(builder[c], response)
          IN  /\ builder' = [builder EXCEPT ![c] = out.self]
              /\ last' = [last EXCEPT ![c] =
                             [ op |-> "query", arg |-> [url |-> pending[c].url],
                               pre |-> builder[c], predone |-> done[c],
                               sent |-> TRUE, resp |-> response, res |-> out.res ]]
    /\ pc' = [pc EXCEPT ![c] = "ready"]
    /\ pending' = [pending EXCEPT ![c] = NoPending]
    /\ UNCHANGED <<chains, steps, done>>

Next ==
    \/ \E c \in chains : CallCoordinates(c)
    \/ \E c \in chains : LocationSend(c)
    \/ \E c \in chains : LocationRecv(c)
    \/ \E c \in chains : CallStartDate(c)
    \/ \E c \in chains : CallEndDate(c)
    \/ \E c \in chains : CallCurrentWeather(c)
    \/ \E c \in chains : CallPastDays(c)
    \/ \E c \in chains : CallForecastDays(c)
    \/ \E c \in chains : CallHourly(c)
    \/ \E c \in chains : CallDaily(c)
    \/ \E c \in chains : CallTimeZone(c)
    \/ \E c \in chains : QuerySend(c)
    \/ \E c \in chains : QueryRecv(c)

Spec == Init /\ [][Next]_vars

\* two chains, their steps and their suspended calls interleaved in any order
SpecPair == InitPair /\ [][Next]_vars

(***************************************************************************)
(* Readings of a result.                                                   *)
(***************************************************************************)
AlreadySetMsgs ==
    { MsgLocationAlreadySet, MsgTimeZoneAlreadySet, MsgStartAlreadySet, MsgEndAlreadySet }

IsAlreadySet(res) == res.tag = "Err" /\ res.type = "String" /\ res.msg \in AlreadySetMsgs

IsLocationNotSet(res) == res = StrErr(MsgLocationNotSet)

IsTimeZoneNotSet(res) == res = StrErr(MsgTimeZoneNotSet)

IsTransport(res) == res.tag = "Err" /\ res.type = "reqwest::Error"

IsMalformed(res) == res.tag = "Err" /\ res.type = "serde_json::Error"

IsRemoteRejected(res, reason) == res = StrErr(reason)

LocationDependent ==
    { "start_date", "end_date", "current_weather", "past_days", "forecast_days" }

\* the query string of a URL: latitude and longitude first, then pairs, one "&"
\* between any two
WellFormedQuery(url) ==
    LET q == Tail(url)
    IN  /\ Len(q) >= 3
        /\ q[1].t = "kv" /\ q[1].k = "latitude"
        /\ q[3].t = "kv" /\ q[3].k = "longitude"
        /\ Len(q) % 2 = 1
        /\ \A i \in 1..Len(q) : IF i % 2 = 1 THEN q[i].t = "kv" ELSE q[i] = Amp

(***************************************************************************)
(* C1.  Once a call setting one of the four single-set options has         *)
(* succeeded, every later call setting that option (coordinates or         *)
(* location, time_zone, start_date, end_date) returns AlreadySet.          *)
(* Stated on the call a chain completed last, for the calls that returned  *)
(* a Result; fails for location().                                         *)
(***************************************************************************)
C1_SecondSetIsAlreadySet ==
    \A c \in chains :
        (OptionOf(last[c].op) \in last[c].predone /\ last[c].res.tag # "Panic")
            => IsAlreadySet(last[c].res)

(***************************************************************************)
(* C2.  A location-dependent call (start_date, end_date, current_weather,  *)
(* past_days, forecast_days) on a chain in which no call has set the       *)
(* location returns LocationNotSet, whatever was called before.            *)
(***************************************************************************)
C2_LocationNotSet ==
    \A c \in chains :
        (last[c].op \in LocationDependent /\ "location" \notin last[c].predone)
            => IsLocationNotSet(last[c].res)

\* start_date after a successful time_zone, no location set
C2_Witness ==
    \E c \in chains :
        /\ last[c].op = "start_date"
        /\ "location" \notin last[c].predone
        /\ "time_zone" \in last[c].predone
        /\ IsLocationNotSet(last[c].res)

(***************************************************************************)
(* C3.  daily() returns TimeZoneNotSet when no time_zone call has          *)
(* succeeded earlier in the chain and succeeds when one has, whether or    *)
(* not location or dates are set.                                          *)
(***************************************************************************)
C3_DailyNeedsTimeZone ==
    \A c \in chains :
        last[c].op = "daily" =>
            IF "time_zone" \in last[c].predone
            THEN last[c].res = Ok("OpenMeteo")
            ELSE IsTimeZoneNotSet(last[c].res)

\* daily succeeds after time_zone on a builder with no location
C3_Witness ==
    \E c \in chains :
        /\ last[c].op = "daily"
        /\ last[c].predone = {"time_zone"}
        /\ last[c].res.tag = "Ok"
        /\ ~builder[c].set_coordinates

(***************************************************************************)
(* C4.  The URL query() requests has a query string that begins with       *)
(* latitude and longitude and is key=value pairs with exactly one "&"      *)
(* between consecutive pairs.  Stated for the requests of builders whose   *)
(* location is set; fails when hourly() or time_zone() came first.         *)
(***************************************************************************)
C4_QueryStringWellFormed ==
    \A c \in chains :
        (pending[c].host = "weather" /\ builder[c].set_coordinates)
            => WellFormedQuery(pending[c].url)

(***************************************************************************)
(* C5.  query() decodes in a fixed order: a body that parses as the        *)
(* success schema gives the result, also when it parses as the error       *)
(* schema too; a body that fails the first parse and passes the second     *)
(* gives an error carrying the service's reason unchanged, and no other    *)
(* body gives such an error.                                               *)
(***************************************************************************)
C5_DecodeOrder ==
    \A c \in chains :
        (last[c].op = "query" /\ last[c].resp.net = "ok") =>
            /\ last[c].resp.body.as_data => last[c].res = Ok("OpenMeteoData")
            /\ (~last[c].resp.body.as_data /\ last[c].resp.body.as_error)
                   => IsRemoteRejected(last[c].res, last[c].resp.body.reason)
            /\ (last[c].res.tag = "Err" /\ last[c].res.type = "String")
                   => ~last[c].resp.body.as_data /\ last[c].resp.body.as_error

\* a body that parses under both schemas was decoded as a success
C5_Witness ==
    \E c \in chains :
        /\ last[c].op = "query"
        /\ last[c].resp.net = "ok"
        /\ last[c].resp.body.as_data /\ last[c].resp.body.as_error
        /\ last[c].res.tag = "Ok"

(***************************************************************************)
(* C6.  A body that matches neither schema makes query() return the        *)
(* serde_json error, never a success; and query() returns that error for   *)
(* no other answer, so it is told apart from a rejection (a String error   *)
(* with the reason) and from a transport failure (a reqwest error).        *)
(***************************************************************************)
C6_MalformedResponse ==
    \A c \in chains :
        last[c].op = "query" =>
            /\ IsMalformed(last[c].res) <=>
                   ( /\ last[c].resp.net = "ok"
                     /\ ~last[c].resp.body.as_data
                     /\ ~last[c].resp.body.as_error )
            /\ IsTransport(last[c].res) <=> last[c].resp.net # "ok"

C6_Witness ==
    \E c \in chains :
        /\ last[c].op = "query"
        /\ last[c].resp.net = "ok"
        /\ ~last[c].resp.body.as_data /\ ~last[c].resp.body.as_error
        /\ IsMalformed(last[c].res)

(***************************************************************************)
(* C7.  location() on a builder with no location set, answered by the      *)
(* geocoder: a status other than 200 returns the lookup-failed error, an   *)
(* empty array the no-match error, and the two differ; an array whose      *)
(* first element is a candidate (lat and lon decimal strings) returns a    *)
(* builder with the location flag set and latitude and longitude of that   *)
(* first candidate, as f32, appended to the endpoint.                      *)
(***************************************************************************)
C7_ResolveLocation ==
    /\ MsgLookupFailed # MsgNoMatch
    /\ \A c \in chains :
          ( /\ last[c].op = "location"
            /\ "location" \notin last[c].predone
            /\ last[c].resp.net = "ok" ) =>
              LET status == last[c].resp.status
                  body   == last[c].resp.body
              IN  /\ status # StatusOK => last[c].res = StrErr(MsgLookupFailed)
                  /\ (status = StatusOK /\ body.t = "array" /\ Len(body.items) = 0)
                         => last[c].res = StrErr(MsgNoMatch)
                  /\ ( /\ status = StatusOK /\ body.t = "array"
                       /\ Len(body.items) >= 1
                       /\ body.items[1] \in WellFormed ) =>
                         /\ last[c].res = Ok("OpenMeteo")
                         /\ builder[c].set_coordinates
                         /\ builder[c].api_url = last[c].pre.api_url \o
                               << KV("latitude",
                                     FormatF32(ParseF32(body.items[1].lat.s).v)),
                                  Amp,
                                  KV("longitude",
                                     FormatF32(ParseF32(body.items[1].lon.s).v)) >>

\* two candidates: the first one's coordinates are in the endpoint
C7_Witness ==
    \E c \in chains :
        /\ last[c].op = "location"
        /\ last[c].resp.net = "ok" /\ last[c].resp.status = StatusOK
        /\ last[c].resp.body.items =
               << [lat |-> JString("51.5073219"), lon |-> JString("-0.1276")],
                  [lat |-> JString("52.52"),      lon |-> JString("13.405")] >>
        /\ builder[c].set_coordinates
        /\ builder[c].api_url =
               << Base, KV("latitude", "51.50732"), Amp, KV("longitude", "-0.1276") >>

(***************************************************************************)
(* C8.  Every failure of location() is returned as an error value: it      *)
(* never panics the calling task.  Fails on a body that is not JSON and    *)
(* on a first element whose lat or lon is no string or no number.          *)
(***************************************************************************)
C8_LocationNeverPanics ==
    \A c \in chains :
        last[c].op = "location" => last[c].res.tag # "Panic" /\ pc[c] # "panicked"

(***************************************************************************)
(* C9.  location() on a builder whose location is already set returns      *)
(* AlreadySet without having issued a geocoding request, whatever the      *)
(* geocoder would answer.  Fails: the request is sent first.               *)
(***************************************************************************)
C9_AlreadySetBeforeRequest ==
    \A c \in chains :
        (last[c].op = "location" /\ last[c].pre.set_coordinates)
            => IsAlreadySet(last[c].res) /\ ~last[c].sent

(***************************************************************************)
(* C10.  Each of the four flags is monotonic along a chain: no step takes  *)
(* a builder with the flag true to a builder with it false.                *)
(***************************************************************************)
C10_FlagsMonotonic ==
    [][ \A c \in chains :
           /\ builder[c].set_coordinates => builder'[c].set_coordinates
           /\ builder[c].set_time_zone   => builder'[c].set_time_zone
           /\ builder[c].set_start_date  => builder'[c].set_start_date
           /\ builder[c].set_end_date    => builder'[c].set_end_date ]_vars

\* a successful later step on a builder with two flags set, which it keeps
C10_Witness ==
    \E c \in chains :
        /\ last[c].op = "current_weather"
        /\ last[c].res.tag = "Ok"
        /\ last[c].pre.set_coordinates /\ last[c].pre.set_time_zone
        /\ builder[c].set_coordinates /\ builder[c].set_time_zone

(***************************************************************************)
(* C11.  time_zone(zone) appends "&timezone=" and one literal per value,   *)
(* the URL-encoded IANA identifier the value names (AsiaTokyo gives        *)
(* Asia%2FTokyo, AmericaSaoPaulo gives America%2FSao_Paulo, GMT0 gives     *)
(* GMT, Auto gives auto), distinct values giving distinct literals.        *)
(* Fails for AsiaTokyo and AmericaSaoPaulo.                                *)
(***************************************************************************)
IanaLiteral(zone) ==
    CASE zone = "AmericaAnchorage"  -> "America%2FAnchorage"
      [] zone = "AmericaLosAngeles" -> "America%2FLos_Angeles"
      [] zone = "AmericaDenver"     -> "America%2FDenver"
      [] zone = "AmericaChicago"    -> "America%2FChicago"
      [] zone = "AmericaNewYork"    -> "America%2FNew_York"
      [] zone = "AmericaSaoPaulo"   -> "America%2FSao_Paulo"
      [] zone = "GMT0"              -> "GMT"
      [] zone = "Auto"              -> "auto"
      [] zone = "EuropeLondon"      -> "Europe%2FLondon"
      [] zone = "EuropeBerlin"      -> "Europe%2FBerlin"
      [] zone = "EuropeMoscow"      -> "Europe%2FMoscow"
      [] zone = "AfricaCairo"       -> "Africa%2FCairo"
      [] zone = "AsiaBangkok"       -> "Asia%2FBangkok"
      [] zone = "AsiaSingapore"     -> "Asia%2FSingapore"
      [] zone = "AsiaTokyo"         -> "Asia%2FTokyo"
      [] zone = "AustraliaSydney"   -> "Australia%2FSydney"
      [] zone = "PacificAuckland"   -> "Pacific%2FAuckland"

C11_TimeZoneLiteral ==
    /\ \A z1, z2 \in TimeZone : z1 # z2 => TimeZoneLiteral(z1) # TimeZoneLiteral(z2)
    /\ \A c \in chains :
          (last[c].op = "time_zone" /\ last[c].res.tag = "Ok") =>
              builder[c].api_url = last[c].pre.api_url \o
                  << Amp, KV("timezone", IanaLiteral(last[c].arg.z)) >>

(***************************************************************************)
(* C12.  past_days(n) and forecast_days(n) apply no local bound: on a      *)
(* builder with the location set they succeed for every n and append n in  *)
(* decimal, beyond the service's horizon too; such a request is rejected   *)
(* only by the answer query() decodes.                                     *)
(***************************************************************************)
C12_NoLocalDayBound ==
    /\ \A c \in chains :
        (last[c].op \in {"past_days", "forecast_days"} /\ last[c].pre.set_coordinates)
            => /\ last[c].res = Ok("OpenMeteo")
               /\ builder[c].api_url = last[c].pre.api_url \o
                      << Amp, KV(last[c].op, FormatU64(last[c].arg.n)) >>
    /\ \A c \in chains :
        ( /\ last[c].op = "query"
          /\ \E i \in 1..Len(last[c].arg.url) :
                 last[c].arg.url[i] = KV("forecast_days", "17")
          /\ last[c].resp.net = "ok"
          /\ ~last[c].resp.body.as_data /\ last[c].resp.body.as_error )
            => IsRemoteRejected(last[c].res, last[c].resp.body.reason)

\* forecast_days(17) accepted by the builder
C12_Witness ==
    \E c \in chains :
        /\ last[c].op = "forecast_days"
        /\ last[c].arg.n = 17
        /\ last[c].res.tag = "Ok"
        /\ builder[c].api_url[Len(builder[c].api_url)] = KV("forecast_days", "17")

(***************************************************************************)
(* C13.  end_date succeeds on every builder with the location set and the  *)
(* end date not yet set, whether or not a start date is set.               *)
(***************************************************************************)
C13_EndWithoutStart ==
    \A c \in chains :
        ( /\ last[c].op = "end_date"
          /\ "location" \in last[c].predone
          /\ "end_date" \notin last[c].predone )
            => /\ last[c].res = Ok("OpenMeteo")
               /\ builder[c].set_end_date
               /\ builder[c].api_url = last[c].pre.api_url \o
                      << Amp, KV("end_date", last[c].arg.s) >>

\* end_date accepted with no start date
C13_Witness ==
    \E c \in chains :
        /\ last[c].op = "end_date"
        /\ last[c].res.tag = "Ok"
        /\ "start_date" \notin last[c].predone
        /\ ~builder[c].set_start_date /\ builder[c].set_end_date

(***************************************************************************)
(* C14.  hourly() succeeds on every builder, also before the location is   *)
(* set, appends the fixed hourly catalog and leaves the four flags as      *)
(* they were.                                                              *)
(***************************************************************************)
C14_HourlyAlwaysSucceeds ==
    \A c \in chains :
        last[c].op = "hourly" =>
            /\ last[c].res = Ok("OpenMeteo")
            /\ builder[c] = [last[c].pre EXCEPT
                   !.api_url = @ \o << Amp, KV("hourly", HourlyCatalog) >>]

\* hourly on a builder without location
C14_Witness ==
    \E c \in chains :
        /\ last[c].op = "hourly"
        /\ ~last[c].pre.set_coordinates
        /\ last[c].res.tag = "Ok"

Occurrences(url, key) ==
    Cardinality({ i \in 1..Len(url) : url[i].t = "kv" /\ url[i].k = key })

IsPrefix(u, w) == Len(u) <= Len(w) /\ SubSeq(w, 1, Len(u)) = u

(***************************************************************************)
(* C17.  In every builder state a start or end date flag implies the       *)
(* location flag, and the endpoint holds a start_date, end_date,           *)
(* current_weather, past_days or forecast_days parameter only if the       *)
(* location flag is true.                                                  *)
(***************************************************************************)
C17_LocationBeforeDependents ==
    \A c \in chains :
        /\ (builder[c].set_start_date \/ builder[c].set_end_date)
               => builder[c].set_coordinates
        /\ (\E key \in LocationDependent : Occurrences(builder[c].api_url, key) > 0)
               => builder[c].set_coordinates

\* a builder with both dates, which has its location
C17_Witness ==
    \E c \in chains :
        /\ builder[c].set_start_date /\ builder[c].set_end_date
        /\ builder[c].set_coordinates
        /\ Occurrences(builder[c].api_url, "start_date") = 1

C19_ErrorChangesNothing ==
    \A c \in chains :
        (last[c].op # "query" /\ last[c].res.tag = "Err")
            => /\ builder[c] = last[c].pre
               /\ done[c] = last[c].predone

\* a rejected start_date, before the location
C19_Witness ==
    \E c \in chains :
        /\ last[c].op = "start_date"
        /\ IsLocationNotSet(last[c].res)
        /\ pc[c] = "failed"
        /\ Occurrences(builder[c].api_url, "start_date") = 0
        /\ Occurrences(builder[c].api_url, "timezone") = 1

(***************************************************************************)
(* C20.  The endpoint is append-only: after every successful configuration *)
(* call the endpoint given is a strict prefix of the endpoint returned, so *)
(* parameters stand in the order of the calls.                             *)
(***************************************************************************)
C20_EndpointAppendOnly ==
    \A c \in chains :
        (last[c].op \notin {"new", "query"} /\ last[c].res.tag = "Ok")
            => /\ IsPrefix(last[c].pre.api_url, builder[c].api_url)
               /\ Len(last[c].pre.api_url) < Len(builder[c].api_url)

\* three calls, their parameters in the order of the calls
C20_Witness ==
    \E c \in chains :
        builder[c].api_url =
            << Base, KV("latitude", "51"), Amp, KV("longitude", "0"),
               Amp, KV("past_days", "10"), Amp, KV("hourly", HourlyCatalog) >>

(***************************************************************************)
(* C16.  Two chains running concurrently, their steps and their suspended  *)
(* calls interleaved in any order: no step of one chain writes state of    *)
(* the other, and what a step returns (result, flags, endpoint) is what    *)
(* the method yields on the chain's own builder, argument and answer, so   *)
(* each chain ends as it would alone.                                      *)
(***************************************************************************)
ChainState(c) == <<builder[c], pc[c], pending[c], steps[c], done[c], last[c]>>

\* what a method yields when run alone on `self`
Apply(op, self, arg, resp) ==
    CASE op = "coordinates"     -> coordinates(self, arg.lat, arg.lon)
      [] op = "location"        -> location(self, resp)
      [] op = "start_date"      -> start_date(self, arg.s)
      [] op = "end_date"        -> end_date(self, arg.s)
      [] op = "current_weather" -> current_weather(self)
      [] op = "past_days"       -> past_days(self, arg.n)
      [] op = "forecast_days"   -> forecast_days(self, arg.n)
      [] op = "hourly"          -> hourly(self)
      [] op = "daily"           -> daily(self)
      [] op = "time_zone"       -> time_zone(self, arg.z)
      [] op = "query"           -> query(self, resp)

====
